---- MODULE Spec2Model ----
(***************************************************************************)
(* Model of the authentication facade (useUser, useLogin, useLogout, the   *)
(* zod input schemas) and of the query-client configurations of the        *)
(* repository.                                                             *)
(*                                                                         *)
(*   Spec          the session / 'user' cache entry / login / logout       *)
(*                 state machine                                           *)
(*   SpecRegister  registerInputSchema applied to bounded inputs           *)
(*   SpecQuery     a failing query under each QueryClient configuration    *)
(***************************************************************************)
EXTENDS Naturals, Sequences, FiniteSets

VARIABLES
    session,        \* what useSession() yields: the active session or none
    userEntry,      \* the query cache entry under the key ['user']
    lookupPc,       \* the GET /auth/me request: "idle" | "fetching"
    lookupStatus,   \* state of the last lookup: "idle" | "pending" | "success" | "error"
    lookupOutcome,  \* how api.get('/auth/me') ended for the last lookup
    lookupResult,   \* what queryFn returned for the last lookup
    loginPc,        \* useLogin mutation: "idle" | "signingIn" | "onSuccess" | "success" | "error"
    loginInput,     \* the LoginInput handed to signIn by the current attempt
    loginResult,    \* the provider's answer to the current attempt
    loginError,     \* the message of the Error the current attempt raised
    loginCb,        \* times the caller's onSuccess ran in the current attempt
    logoutPc,       \* useLogout mutation: "idle" | "signingOut" | "onSuccess" | "success" | "error"
    logoutTrace,    \* the steps the current logout has run, in order
    logoutCb,       \* times the caller's onSuccess ran in the current logout
    logoutCbSaw,    \* whether that callback found a 'user' entry in the cache
    regInput,       \* input handed to registerInputSchema
    regResult,      \* its parse result
    qClient,        \* which QueryClient configuration serves the query
    qIsServer,      \* whether the query runs on the server (library default of retry)
    qStatus,        \* "idle" | "fetching" | "retrying" | "success" | "error"
    qFailureCount,  \* failed fetches of the current fetch cycle
    qFetches,       \* fetch cycles started
    qRetries,       \* fetches started by a retry
    qAge,           \* time since the data was fetched, in units of staleTime of createQueryClient
    qThrown         \* the error of the failed query was re-raised to the caller

authVars == <<session, userEntry, lookupPc, lookupStatus, lookupOutcome, lookupResult,
              loginPc, loginInput, loginResult, loginError, loginCb,
              logoutPc, logoutTrace, logoutCb, logoutCbSaw>>
regVars == <<regInput, regResult>>
queryVars == <<qClient, qIsServer, qStatus, qFailureCount, qFetches, qRetries, qAge,
               qThrown>>
vars == <<authVars, regVars, queryVars>>

----------------------------------------------------------------------------
(* Values *)

Undefined == "undefined"
Null == "null"

\* the user payloads a session or a lookup can carry
Users == {"alice", "bob"}

\* longest password the inputs carry
MaxPasswordLen == 6

Str(n) == [i \in 1..n |-> "p"]
Passwords == {Str(n) : n \in 0..MaxPasswordLen}

Emails == {<<>>, <<"a">>, <<"a", "@", "b", ".", "c">>}

----------------------------------------------------------------------------
(* useSession and the 'user' cache entry *)

NoSession == [active |-> FALSE, user |-> Undefined]
Sessions == {[active |-> TRUE, user |-> u] : u \in Users \cup {Undefined}}

NoEntry == [present |-> FALSE, data |-> Undefined]
Entry(d) == [present |-> TRUE, data |-> d]

\* a ?? b
Coalesce(a, b) == IF a \in {Null, Undefined} THEN b ELSE a

\* session?.user
SessionUser(s) == IF s.active THEN s.user ELSE Undefined

\* query.data of useQuery on the key ['user']
QueryData(e) == IF e.present THEN e.data ELSE Undefined

\* enabled: !!session
UseUserEnabled_AlwaysOn(s) == TRUE
UseUserEnabled(s) == s.active

\* data: session?.user ?? query.data ?? null
UseUserData_NoNullFallback(s, e) == Coalesce(SessionUser(s), QueryData(e))
UseUserData_CacheFirst(s, e) == Coalesce(Coalesce(QueryData(e), SessionUser(s)), Null)
UseUserData(s, e) == Coalesce(Coalesce(SessionUser(s), QueryData(e)), Null)

----------------------------------------------------------------------------
(* getUserQueryOptions: queryFn *)

ApiOutcomes == {[ok |-> TRUE, data |-> u, failure |-> "none"] : u \in Users}
               \cup {[ok |-> FALSE, data |-> Undefined, failure |-> f] :
                        f \in {"network", "401", "thrown"}}

\* try { return (await api.get('/auth/me')).data } catch { return null }
QueryFn_NoCatch(o) == IF o.ok THEN [threw |-> FALSE, value |-> o.data]
                      ELSE [threw |-> TRUE, value |-> Undefined]
QueryFn(o) == IF o.ok THEN [threw |-> FALSE, value |-> o.data]
              ELSE [threw |-> FALSE, value |-> Null]

----------------------------------------------------------------------------
(* zod schemas *)

LoginPasswordMin == 5
RegisterPasswordMin == 5

\* z.string().email(): one "@", a non-empty local part, a dotted domain
IsEmail(s) ==
    \E i \in 2..Len(s) :
        /\ s[i] = "@"
        /\ \A k \in 1..Len(s) : s[k] = "@" => k = i
        /\ s[1] # "."
        /\ \E j \in (i + 2)..(Len(s) - 1) : s[j] = "."
        /\ s[i + 1] # "."
        /\ s[Len(s)] # "."

\* loginInputSchema
loginInputSchema(in) ==
    /\ Len(in.email) >= 1
    /\ IsEmail(in.email)
    /\ Len(in.password) >= LoginPasswordMin

LoginInputs == [email : Emails, password : Passwords]

\* a field of an object handed to a schema: missing, null or a string
JsUndefined == [kind |-> "undefined", val |-> <<>>]
JsNull == [kind |-> "null", val |-> <<>>]
JsString(s) == [kind |-> "string", val |-> s]

\* z.string().min(n)
ZStringMin(v, n) == v.kind = "string" /\ Len(v.val) >= n

\* z.null().default(null): a missing field parses to null, null parses, nothing else does
ZNullDefault(v) == v.kind \in {"undefined", "null"}

\* the object({email, firstName, lastName, password}) side of the intersection
RegisterBase(in) ==
    /\ ZStringMin(in.email, 1)
    /\ ZStringMin(in.firstName, 1)
    /\ ZStringMin(in.lastName, 1)
    /\ ZStringMin(in.password, RegisterPasswordMin)

\* object({teamId: string.min(1), teamName: null.default(null)})
RegisterByTeamId(in) == ZStringMin(in.teamId, 1) /\ ZNullDefault(in.teamName)

\* object({teamName: string.min(1), teamId: null.default(null)})
RegisterByTeamName(in) == ZStringMin(in.teamName, 1) /\ ZNullDefault(in.teamId)

RegisterRejected == [parsed |-> TRUE, success |-> FALSE,
                     teamId |-> JsUndefined, teamName |-> JsUndefined]

\* registerInputSchema.safeParse(in): base.and(byTeamId.or(byTeamName))
registerInputSchema_NoExclusion(in) ==
    IF RegisterBase(in) /\ (ZStringMin(in.teamId, 1) \/ ZStringMin(in.teamName, 1))
    THEN [parsed |-> TRUE, success |-> TRUE, teamId |-> in.teamId, teamName |-> in.teamName]
    ELSE RegisterRejected
registerInputSchema(in) ==
    IF RegisterBase(in) /\ RegisterByTeamId(in)
    THEN [parsed |-> TRUE, success |-> TRUE, teamId |-> in.teamId, teamName |-> JsNull]
    ELSE IF RegisterBase(in) /\ RegisterByTeamName(in)
    THEN [parsed |-> TRUE, success |-> TRUE, teamId |-> JsNull, teamName |-> in.teamName]
    ELSE RegisterRejected

NameValues == {JsUndefined, JsString(Str(0)), JsString(Str(1))}
TeamValues == {JsUndefined, JsNull, JsString(Str(0)), JsString(Str(1))}
PasswordValues == {JsUndefined} \cup {JsString(p) : p \in Passwords}
RegisterInputs == [email : NameValues, firstName : NameValues, lastName : NameValues,
                   password : PasswordValues, teamId : TeamValues, teamName : TeamValues]

----------------------------------------------------------------------------
(* signIn / signOut of the session provider *)

ProviderErrors == {"CredentialsSignin", "AccessDenied"}

\* what signIn('credentials', {..., redirect: false}) resolves to
SignInResults == {[defined |-> FALSE, error |-> Undefined]}
                 \cup {[defined |-> TRUE, error |-> e] :
                          e \in ProviderErrors \cup {Null, Undefined}}

NoResult == [defined |-> FALSE, error |-> "pending"]

\* result?.error
ResultError(r) == IF r.defined THEN r.error ELSE Undefined

Truthy(x) == x \notin {Null, Undefined, ""}

\* if (result?.error) throw new Error(result.error); return result
LoginMutationFn_IgnoresError(r) == [threw |-> FALSE, message |-> Undefined]
LoginMutationFn(r) ==
    IF Truthy(ResultError(r))
    THEN [threw |-> TRUE, message |-> ResultError(r)]
    ELSE [threw |-> FALSE, message |-> Undefined]

\* queryClient.removeQueries({ queryKey: ['user'] })
RemoveQueries_Keeps(e) == e
RemoveQueries(e) == NoEntry

----------------------------------------------------------------------------
(* Spec: the authentication facade *)

AuthInit ==
    /\ session = NoSession
    /\ userEntry = NoEntry
    /\ lookupPc = "idle"
    /\ lookupStatus = "idle"
    /\ lookupOutcome = [ok |-> FALSE, data |-> Undefined, failure |-> "none"]
    /\ lookupResult = Undefined
    /\ loginPc = "idle"
    /\ loginInput = [email |-> <<>>, password |-> <<>>]
    /\ loginResult = NoResult
    /\ loginError = Undefined
    /\ loginCb = 0
    /\ logoutPc = "idle"
    /\ logoutTrace = <<>>
    /\ logoutCb = 0
    /\ logoutCbSaw = FALSE

RegUnparsed == [parsed |-> FALSE, success |-> FALSE,
                teamId |-> JsUndefined, teamName |-> JsUndefined]

RegIdle ==
    /\ regInput = [email |-> JsUndefined, firstName |-> JsUndefined,
                   lastName |-> JsUndefined, password |-> JsUndefined,
                   teamId |-> JsUndefined, teamName |-> JsUndefined]
    /\ regResult = RegUnparsed

QueryIdle ==
    /\ qClient = "queryClient"
    /\ qIsServer = FALSE
    /\ qStatus = "idle"
    /\ qFailureCount = 0
    /\ qFetches = 0
    /\ qRetries = 0
    /\ qAge = 0
    /\ qThrown = FALSE

Init == AuthInit /\ RegIdle /\ QueryIdle

lookupVars == <<lookupPc, lookupStatus, lookupOutcome, lookupResult>>
loginVars == <<loginPc, loginInput, loginResult, loginError, loginCb>>
logoutVars == <<logoutPc, logoutTrace, logoutCb, logoutCbSaw>>

\* useQuery({...getUserQueryOptions(), enabled: !!session}) starts a fetch
LookupStart ==
    /\ UseUserEnabled(session)
    /\ lookupPc = "idle"
    /\ lookupPc' = "fetching"
    /\ lookupStatus' = "pending"
    /\ UNCHANGED <<session, userEntry, lookupOutcome, lookupResult, loginVars, logoutVars>>
    /\ UNCHANGED <<regVars, queryVars>>

\* api.get('/auth/me') settles and queryFn returns
LookupSettle(o) ==
    /\ lookupPc = "fetching"
    /\ lookupPc' = "idle"
    /\ lookupOutcome' = o
    /\ LET r == QueryFn(o) IN
        IF r.threw
        THEN /\ lookupStatus' = "error"
             /\ lookupResult' = Undefined
             /\ UNCHANGED userEntry
        ELSE /\ lookupStatus' = "success"
             /\ lookupResult' = r.value
             /\ userEntry' = Entry(r.value)
    /\ UNCHANGED <<session, loginVars, logoutVars>>
    /\ UNCHANGED <<regVars, queryVars>>

\* the session provider drops the session (expiry, sign-out elsewhere)
SessionExpire ==
    /\ session.active
    /\ session' = NoSession
    /\ UNCHANGED <<userEntry, lookupVars, loginVars, logoutVars>>
    /\ UNCHANGED <<regVars, queryVars>>

\* login.mutate(data): mutationFn calls signIn('credentials', {...data, redirect: false})
LoginStart(in) ==
    /\ loginPc \in {"idle", "success", "error"}
    /\ loginPc' = "signingIn"
    /\ loginInput' = in
    /\ loginResult' = NoResult
    /\ loginError' = Undefined
    /\ loginCb' = 0
    /\ UNCHANGED <<session, userEntry, lookupVars, logoutVars>>
    /\ UNCHANGED <<regVars, queryVars>>

\* signIn resolves with the provider's answer; mutationFn throws or returns
SignInResolve(r, s) ==
    /\ loginPc = "signingIn"
    /\ loginResult' = r
    /\ session' = IF Truthy(ResultError(r)) THEN session ELSE s
    /\ LET m == LoginMutationFn(r) IN
        /\ loginPc' = IF m.threw THEN "error" ELSE "onSuccess"
        /\ loginError' = m.message
    /\ UNCHANGED <<userEntry, lookupVars, loginInput, loginCb, logoutVars>>
    /\ UNCHANGED <<regVars, queryVars>>

\* signIn itself rejects (the request never reached the provider)
SignInReject ==
    /\ loginPc = "signingIn"
    /\ loginPc' = "error"
    /\ loginError' = "fetch failed"
    /\ UNCHANGED <<session, userEntry, lookupVars, loginInput, loginResult, loginCb,
                   logoutVars>>
    /\ UNCHANGED <<regVars, queryVars>>

\* useMutation runs the onSuccess option after mutationFn returned
LoginOnSuccess ==
    /\ loginPc = "onSuccess"
    /\ loginPc' = "success"
    /\ loginCb' = loginCb + 1
    /\ UNCHANGED <<session, userEntry, lookupVars, loginInput, loginResult, loginError,
                   logoutVars>>
    /\ UNCHANGED <<regVars, queryVars>>

\* logout.mutate(): mutationFn calls signOut({ redirect: false })
LogoutStart ==
    /\ logoutPc \in {"idle", "success", "error"}
    /\ logoutPc' = "signingOut"
    /\ logoutTrace' = <<"signOut">>
    /\ logoutCb' = 0
    /\ logoutCbSaw' = FALSE
    /\ UNCHANGED <<session, userEntry, lookupVars, loginVars>>
    /\ UNCHANGED <<regVars, queryVars>>

\* signOut resolves: the provider has cleared the session
SignOutResolve ==
    /\ logoutPc = "signingOut"
    /\ logoutPc' = "onSuccess"
    /\ session' = NoSession
    /\ logoutTrace' = Append(logoutTrace, "signedOut")
    /\ UNCHANGED <<userEntry, lookupVars, loginVars, logoutCb, logoutCbSaw>>
    /\ UNCHANGED <<regVars, queryVars>>

\* signOut rejects: the mutation fails, useLogout registers no error handler
SignOutReject_RemovesEntry ==
    /\ logoutPc = "signingOut"
    /\ logoutPc' = "error"
    /\ logoutTrace' = Append(logoutTrace, "signOutFailed")
    /\ userEntry' = RemoveQueries(userEntry)
    /\ UNCHANGED <<session, lookupVars, loginVars, logoutCb, logoutCbSaw>>
    /\ UNCHANGED <<regVars, queryVars>>
SignOutReject ==
    /\ logoutPc = "signingOut"
    /\ logoutPc' = "error"
    /\ logoutTrace' = Append(logoutTrace, "signOutFailed")
    /\ UNCHANGED <<session, userEntry, lookupVars, loginVars, logoutCb, logoutCbSaw>>
    /\ UNCHANGED <<regVars, queryVars>>

\* onSuccess: () => { queryClient.removeQueries({queryKey: ['user']}); onSuccess?.() }
\* removing the query cancels its fetch in flight
LogoutOnSuccess_CallbackFirst ==
    /\ logoutPc = "onSuccess"
    /\ logoutPc' = "success"
    /\ logoutCb' = logoutCb + 1
    /\ logoutCbSaw' = userEntry.present
    /\ userEntry' = RemoveQueries(userEntry)
    /\ lookupPc' = "idle"
    /\ lookupStatus' = "idle"
    /\ logoutTrace' = logoutTrace \o <<"onSuccess", "removeQueries">>
    /\ UNCHANGED <<session, lookupOutcome, lookupResult, loginVars>>
    /\ UNCHANGED <<regVars, queryVars>>
LogoutOnSuccess ==
    /\ logoutPc = "onSuccess"
    /\ logoutPc' = "success"
    /\ LET removed == RemoveQueries(userEntry) IN
        /\ userEntry' = removed
        /\ logoutCbSaw' = removed.present
    /\ lookupPc' = "idle"
    /\ lookupStatus' = "idle"
    /\ logoutCb' = logoutCb + 1
    /\ logoutTrace' = logoutTrace \o <<"removeQueries", "onSuccess">>
    /\ UNCHANGED <<session, lookupOutcome, lookupResult, loginVars>>
    /\ UNCHANGED <<regVars, queryVars>>

Next ==
    \/ LookupStart
    \/ \E o \in ApiOutcomes : LookupSettle(o)
    \/ SessionExpire
    \/ \E in \in LoginInputs : LoginStart(in)
    \/ \E r \in SignInResults, s \in Sessions : SignInResolve(r, s)
    \/ SignInReject
    \/ LoginOnSuccess
    \/ LogoutStart
    \/ SignOutResolve
    \/ SignOutReject
    \/ LogoutOnSuccess

Spec == Init /\ [][Next]_vars

----------------------------------------------------------------------------
(* Properties of Spec *)

\* what useUser() returns as data in the current state
CurrentUser == UseUserData(session, userEntry)

\* C1: whenever no session is active, useUser returns null and the lookup
\* under the key 'user' is disabled.
C1_NoSessionYieldsNull ==
    ~session.active => (CurrentUser = Null /\ ~UseUserEnabled(session))

\* C2 (as amended): whenever a session is active and carries a user, useUser
\* returns that user, whatever the cache holds under 'user'.
C2_SessionUserTakesPrecedence ==
    (session.active /\ session.user \in Users) => CurrentUser = session.user

\* a session with a user while the cache holds a different user
C2_Witness ==
    /\ session.active
    /\ session.user \in Users
    /\ userEntry.present
    /\ userEntry.data \in Users
    /\ userEntry.data # session.user
    /\ CurrentUser = session.user

\* C2 as stated: whenever a session is active, useUser returns what the
\* session alone gives, whatever the cache holds under 'user'.
C2_Original ==
    session.active => CurrentUser = Coalesce(SessionUser(session), Null)

C4_ShortPasswordNeverReachesSignIn ==
    loginPc = "signingIn" => Len(loginInput.password) >= LoginPasswordMin

\* C6: a login the provider answered without an error runs the caller's
\* onSuccess exactly once; a login the provider answered with an error runs
\* it zero times and raises an Error carrying the provider's error.
C6_LoginCallback ==
    /\ loginCb <= 1
    /\ loginPc = "success" => (loginCb = 1 /\ ~Truthy(ResultError(loginResult)))
    /\ (loginResult # NoResult /\ ~Truthy(ResultError(loginResult)))
          => (loginPc \in {"onSuccess", "success"} /\ loginError = Undefined)
    /\ (loginResult # NoResult /\ Truthy(ResultError(loginResult)))
          => (loginPc = "error" /\ loginCb = 0 /\ loginError = ResultError(loginResult))

\* a login completed with its callback run once
C6_Witness ==
    /\ loginPc = "success"
    /\ loginCb = 1
    /\ loginResult # NoResult

\* C7: the current-user lookup never ends in an error: a failed GET /auth/me
\* yields null, a successful one the response's user payload.
C7_LookupNeverErrors ==
    /\ lookupStatus # "error"
    /\ lookupStatus = "success"
          => lookupResult = (IF lookupOutcome.ok THEN lookupOutcome.data ELSE Null)

\* a lookup whose request failed ended successfully with null cached
C7_Witness ==
    /\ lookupStatus = "success"
    /\ ~lookupOutcome.ok
    /\ lookupOutcome.failure \in {"network", "401", "thrown"}
    /\ lookupResult = Null
    /\ userEntry = Entry(Null)

\* C9: logout calls the provider's sign-out first, removes the 'user' entry
\* only after the sign-out succeeded, and runs the caller's callback only
\* after the removal, so the callback never finds a 'user' entry.
C9_LogoutOrder ==
    /\ [](/\ logoutTrace \in {<<>>, <<"signOut">>, <<"signOut", "signOutFailed">>,
                              <<"signOut", "signedOut">>,
                              <<"signOut", "signedOut", "removeQueries", "onSuccess">>}
          /\ logoutCb > 0 => (~logoutCbSaw /\ logoutPc = "success"))
    /\ [][(userEntry.present /\ ~userEntry'.present)
             => (logoutPc = "onSuccess" /\ logoutCb = 0 /\ logoutCb' = 1)]_vars

\* a logout ran all its steps while the cache held an entry before the removal
C9_Witness ==
    /\ logoutTrace = <<"signOut", "signedOut", "removeQueries", "onSuccess">>
    /\ logoutCb = 1
    /\ ~logoutCbSaw
    /\ lookupStatus = "idle"
    /\ lookupResult \in Users

\* C10: when the provider's sign-out fails, the logout leaves the 'user'
\* entry as it was and does not run the caller's callback.
C10_FailedSignOutFrame ==
    /\ [](logoutPc = "error" => logoutCb = 0)
    /\ [][(logoutPc = "signingOut" /\ logoutPc' = "error")
             => (userEntry' = userEntry /\ logoutCb' = 0)]_vars

\* a logout failed at sign-out with a user still cached
C10_Witness ==
    /\ logoutPc = "error"
    /\ logoutTrace = <<"signOut", "signOutFailed">>
    /\ userEntry.present
    /\ userEntry.data \in Users
    /\ logoutCb = 0

\* a value that is neither null nor undefined
Present(x) == x \notin {Null, Undefined}

\* C11: for every session and cache state useUser returns the first present
\* value of: the session's user, the cached lookup result, null; it never
\* returns undefined, and with an active session that carries no user it
\* returns the cached lookup result.
C11_FirstPresentValue ==
    /\ CurrentUser # Undefined
    /\ (session.active /\ Present(session.user)) => CurrentUser = session.user
    /\ (~(session.active /\ Present(session.user))
           /\ userEntry.present /\ Present(userEntry.data))
          => CurrentUser = userEntry.data
    /\ (~(session.active /\ Present(session.user))
           /\ ~(userEntry.present /\ Present(userEntry.data)))
          => CurrentUser = Null
    /\ (session.active /\ session.user = Undefined /\ userEntry.present)
          => CurrentUser = userEntry.data

\* an active session without a user while the lookup has cached a user
C11_Witness ==
    /\ session.active
    /\ session.user = Undefined
    /\ userEntry.present
    /\ userEntry.data \in Users
    /\ CurrentUser = userEntry.data

\* C12: right after a successful logout that left no session, useUser
\* returns null and no lookup is in flight; and as long as no session exists
\* this stays so: no lookup request is issued and useUser keeps returning null.
C12_AfterLogoutNoUserNoLookup ==
    /\ [][(logoutPc = "onSuccess" /\ logoutPc' = "success" /\ ~session'.active)
             => (UseUserData(session', userEntry') = Null /\ lookupPc' = "idle")]_vars
    /\ [][(~session.active /\ CurrentUser = Null /\ lookupPc = "idle" /\ ~session'.active)
             => (UseUserData(session', userEntry') = Null /\ lookupPc' = "idle")]_vars

\* a login and a lookup that cached a user were followed by a successful
\* logout: no session, no user, no lookup in flight
C12_Witness ==
    /\ logoutPc = "success"
    /\ logoutCb = 1
    /\ loginPc = "success"
    /\ ~session.active
    /\ lookupResult \in Users
    /\ lookupStatus = "idle"
    /\ lookupPc = "idle"
    /\ CurrentUser = Null

----------------------------------------------------------------------------
(* SpecRegister: registerInputSchema on bounded inputs *)

InitRegister ==
    /\ AuthInit
    /\ QueryIdle
    /\ regInput \in RegisterInputs
    /\ regResult = RegUnparsed

\* registerInputSchema.safeParse(regInput)
RegisterParse ==
    /\ ~regResult.parsed
    /\ regResult' = registerInputSchema(regInput)
    /\ UNCHANGED <<regInput, authVars, queryVars>>

NextRegister == RegisterParse

SpecRegister == InitRegister /\ [][NextRegister]_vars

NonEmptyString(v) == v.kind = "string" /\ Len(v.val) >= 1
Missing(v) == v.kind \in {"undefined", "null"}

OtherFieldsValid(in) ==
    /\ NonEmptyString(in.email)
    /\ NonEmptyString(in.firstName)
    /\ NonEmptyString(in.lastName)
    /\ in.password.kind = "string"
    /\ Len(in.password.val) >= RegisterPasswordMin

\* C5 (as amended): registerInputSchema rejects every input whose team
\* identifier and team name are both non-empty strings and every input in
\* which both are absent; with the other fields valid it accepts exactly the
\* inputs in which one of the two is a non-empty string and the other is
\* absent (undefined or null), so an empty string in the other one rejects.
C5_ExactlyOneTeamField ==
    regResult.parsed =>
        /\ (NonEmptyString(regInput.teamId) /\ NonEmptyString(regInput.teamName))
              => ~regResult.success
        /\ (Missing(regInput.teamId) /\ Missing(regInput.teamName))
              => ~regResult.success
        /\ OtherFieldsValid(regInput) =>
              (regResult.success <=>
                  \/ NonEmptyString(regInput.teamId) /\ Missing(regInput.teamName)
                  \/ NonEmptyString(regInput.teamName) /\ Missing(regInput.teamId))

\* an input carrying only a team name was parsed and accepted
C5_Witness ==
    /\ regResult.parsed
    /\ regResult.success
    /\ OtherFieldsValid(regInput)
    /\ NonEmptyString(regInput.teamName)
    /\ regInput.teamId = JsUndefined
    /\ regResult.teamId = JsNull

\* C5 as stated: registerInputSchema rejects the inputs with both team
\* fields non-empty and the inputs with both absent; with the other fields
\* valid it accepts exactly the inputs that carry one of the two as a
\* non-empty string.
C5_Original ==
    regResult.parsed =>
        /\ (NonEmptyString(regInput.teamId) /\ NonEmptyString(regInput.teamName))
              => ~regResult.success
        /\ (Missing(regInput.teamId) /\ Missing(regInput.teamName))
              => ~regResult.success
        /\ OtherFieldsValid(regInput) =>
              (regResult.success <=>
                  (NonEmptyString(regInput.teamId) # NonEmptyString(regInput.teamName)))

----------------------------------------------------------------------------
(* SpecQuery: a query under each QueryClient configuration *)

\* fetch cycles a behaviour starts
MaxFetches == 2
\* longest time a behaviour lets the data age, in ticks
MaxAge == 2

\* a tick of qAge in milliseconds
TickMs == 30 * 1000

\* retries the library makes when defaultOptions.queries sets no retry (browser)
DefaultRetry == 3

\* const queryConfig: DefaultOptions = { queries: {...} }
queryConfig_Defaults ==
    [throwOnError |-> Undefined, refetchOnWindowFocus |-> Undefined, retry |-> Undefined,
     staleTime |-> 1000 * 60]
queryConfig ==
    [throwOnError |-> "true", refetchOnWindowFocus |-> "false", retry |-> "false",
     staleTime |-> 1000 * 60]

\* createQueryClient: new QueryClient({defaultOptions: {queries: {staleTime: 30 * 1000}}})
createQueryClient ==
    [throwOnError |-> Undefined, refetchOnWindowFocus |-> Undefined, retry |-> Undefined,
     staleTime |-> 30 * 1000]

\* getQueryClient = cache(createQueryClient) of the server-only module
getQueryClient ==
    [throwOnError |-> Undefined, refetchOnWindowFocus |-> Undefined, retry |-> Undefined,
     staleTime |-> 30 * 1000]

QueryClients == {"queryClient", "createQueryClient", "getQueryClient"}

DefaultOptions(c) ==
    CASE c = "queryClient" -> queryConfig
      [] c = "createQueryClient" -> createQueryClient
      [] c = "getQueryClient" -> getQueryClient

\* retry: false, or the library default (3 in the browser, 0 on the server)
RetryLimit(cfg, isServer) ==
    IF cfg.retry = "false" THEN 0
    ELSE IF isServer THEN 0 ELSE DefaultRetry

\* throwOnError: true, or the library default (false)
ThrowOnError(cfg) == cfg.throwOnError = "true"

\* refetchOnWindowFocus: false, or the library default (true)
RefetchOnWindowFocus(cfg) == cfg.refetchOnWindowFocus # "false"

IsStale(cfg, age) == age * TickMs >= cfg.staleTime

InitQuery ==
    /\ AuthInit
    /\ RegIdle
    /\ qClient \in QueryClients
    /\ qIsServer \in BOOLEAN
    /\ qClient = "getQueryClient" => qIsServer
    /\ qStatus = "idle"
    /\ qFailureCount = 0
    /\ qFetches = 0
    /\ qRetries = 0
    /\ qAge = 0
    /\ qThrown = FALSE

StartFetch ==
    /\ qFetches < MaxFetches
    /\ qStatus' = "fetching"
    /\ qFailureCount' = 0
    /\ qFetches' = qFetches + 1
    /\ qThrown' = FALSE
    /\ UNCHANGED <<qClient, qIsServer, qRetries, qAge, authVars, regVars>>

\* an observer mounts: fetch when there is no fresh data
QMount ==
    /\ \/ qStatus \in {"idle", "error"}
       \/ qStatus = "success" /\ IsStale(DefaultOptions(qClient), qAge)
    /\ StartFetch

\* the window regains focus
QWindowFocus ==
    /\ ~qIsServer
    /\ RefetchOnWindowFocus(DefaultOptions(qClient))
    /\ \/ qStatus = "error"
       \/ qStatus = "success" /\ IsStale(DefaultOptions(qClient), qAge)
    /\ StartFetch

QFetchOk ==
    /\ qStatus = "fetching"
    /\ qStatus' = "success"
    /\ qAge' = 0
    /\ UNCHANGED <<qClient, qIsServer, qFailureCount, qFetches, qRetries, qThrown,
                   authVars, regVars>>

\* the fetch fails: retry while the retry option allows, else end in error
QFetchFail ==
    /\ qStatus = "fetching"
    /\ qFailureCount' = qFailureCount + 1
    /\ IF qFailureCount < RetryLimit(DefaultOptions(qClient), qIsServer)
       THEN /\ qStatus' = "retrying"
            /\ UNCHANGED qThrown
       ELSE /\ qStatus' = "error"
            /\ qThrown' = ThrowOnError(DefaultOptions(qClient))
    /\ UNCHANGED <<qClient, qIsServer, qFetches, qRetries, qAge, authVars, regVars>>

\* the retry delay elapsed: the query is fetched again
QRetry ==
    /\ qStatus = "retrying"
    /\ qStatus' = "fetching"
    /\ qRetries' = qRetries + 1
    /\ UNCHANGED <<qClient, qIsServer, qFailureCount, qFetches, qAge, qThrown,
                   authVars, regVars>>

QTick ==
    /\ qStatus = "success"
    /\ qAge < MaxAge
    /\ qAge' = qAge + 1
    /\ UNCHANGED <<qClient, qIsServer, qStatus, qFailureCount, qFetches, qRetries,
                   qThrown, authVars, regVars>>

NextQuery ==
    \/ QMount
    \/ QWindowFocus
    \/ QFetchOk
    \/ QFetchFail
    \/ QRetry
    \/ QTick

SpecQuery == InitQuery /\ [][NextQuery]_vars

====
